---- MODULE Spec2Model ----
(***************************************************************************)
(* EquipmentBarcodeScanner (equipment_barcode_scanner.js): the camera      *)
(* session, the 500 ms scan loop, the barcode lookup with its two one-shot *)
(* timers, manual entry and the quick borrow / return calls, as one state  *)
(* machine.  JavaScript runs each handler to its next await atomically, so *)
(* every action below is one such run-to-completion segment.               *)
(***************************************************************************)
EXTENDS Naturals, Sequences, FiniteSets, TLC

(* ---- bounds of the model ---- *)
\* detect() promises that may be pending at once
MaxDecodes == 2
\* orm.call promises (borrow / return) that may be pending at once
MaxCalls == 1

(* ---- constants of the program ---- *)
\* setInterval period of startScanning
ScanIntervalMs == 500
\* setTimeout delay of the auto-open after a found lookup
NavDelayMs == 2000
\* setTimeout delay of the "allow scanning again" reset
CooldownMs == 3000

\* Time is counted in scan periods; both delays are multiples of it.
Ticks(ms) == ms \div ScanIntervalMs

Null == "null"
NoEquipment == [id |-> 0, name |-> "", barcode |-> ""]
NoOutcome == [kind |-> "none", open |-> FALSE, had |-> FALSE]

\* The remote equipment.item collection and the codes shown to the scanner.
Inventory == {[id |-> 7, name |-> "Drill", barcode |-> "EQ-1001"]}
Codes == {"EQ-1001", "EQ-9999"}

\* The media tracks of the stream getUserMedia resolves with (video only).
Tracks == {"video"}

\* Text of the manual entry field, as a sequence of pieces.
Space == " "
Lines == {<<>>, <<Space>>} \cup {<<Space, c, Space>> : c \in Codes}

VARIABLES
    \* this.state
    scanning, lastScanned, equipment, error, cameraActive,
    \* this.stream, this.scanInterval
    stream, scanInterval,
    \* the runtime: live media tracks, pending timers, pending promises
    liveTracks, timers, decodes, lookups, calls,
    \* component lifecycle, position of startCamera, the input field, the platform
    mounted, pcStart, inputValue, hasDetector,
    \* observation: the handler that ran last with what it emitted; whether
    \* stopCamera has run; and, from a lookup's outcome until its cooldown
    \* timer fires: how it ended, whether the widget was still open and whether
    \* a result was stored before, the scan periods passed, the openEquipment
    \* calls made
    last, closed, outcome, elapsed, navCount

stateVars == <<scanning, lastScanned, equipment, error, cameraActive>>
cameraVars == <<stream, scanInterval, liveTracks>>
sessionVars == <<scanning, lastScanned, equipment, error, cameraActive, stream, scanInterval>>
ghostVars == <<closed, outcome, elapsed, navCount>>
vars == <<scanning, lastScanned, equipment, error, cameraActive, stream, scanInterval,
          liveTracks, timers, decodes, lookups, calls,
          mounted, pcStart, inputValue, hasDetector,
          last, closed, outcome, elapsed, navCount>>

\* An observed step: the handler, its argument (the code submitted or looked
\* up; for a stopCamera caller, whether the step before was one too) and
\* what it emitted.
Event(op, arg, out) == [op |-> op, arg |-> arg, out |-> out]
StopOps == {"close", "onWillUnmount"}
Again == IF last.op \in StopOps THEN "consecutive" ELSE Null
Out(svc, what, id) == [svc |-> svc, what |-> what, id |-> id]

(* ---- pure helpers ---- *)

RECURSIVE trimStart(_)
trimStart(s) == IF s # <<>> /\ Head(s) = Space THEN trimStart(Tail(s)) ELSE s

RECURSIVE trimEnd(_)
trimEnd(s) ==
    IF s # <<>> /\ s[Len(s)] = Space THEN trimEnd(SubSeq(s, 1, Len(s) - 1)) ELSE s

RECURSIVE Join(_)
Join(s) == IF s = <<>> THEN "" ELSE Head(s) \o Join(Tail(s))

\* Variant: the text of the field is used as typed.
trim_None(s) == Join(s)

\* event.target.value.trim()
trim(s) == Join(trimEnd(trimStart(s)))

\* orm.searchRead("equipment.item", [['barcode', '=', barcode]], ..., {limit: 1})
searchRead(barcode) ==
    LET hits == {r \in Inventory : r.barcode = barcode}
    IN  IF hits = {} THEN {<<>>} ELSE {<<r>> : r \in hits}

notFoundMessage(barcode) == "No equipment found with barcode: " \o barcode

Pending(kind) == {t \in timers : t.kind = kind}
Due(kind) == {t \in timers : t.kind = kind /\ t.rem = 0}
Timer(kind, ms, id) == [kind |-> kind, rem |-> Ticks(ms), id |-> id]

RemoveAt(s, i) == SubSeq(s, 1, i - 1) \o SubSeq(s, i + 1, Len(s))

(* ---- setup ---- *)

Init ==
    /\ scanning = FALSE
    /\ lastScanned = Null
    /\ equipment = NoEquipment
    /\ error = Null
    /\ cameraActive = FALSE
    /\ stream = Null
    /\ scanInterval = Null
    /\ liveTracks = {}
    /\ timers = {}
    /\ decodes = 0
    /\ lookups = <<>>
    /\ calls = <<>>
    /\ mounted = "new"
    /\ pcStart = "idle"
    /\ inputValue = <<>>
    /\ hasDetector \in BOOLEAN
    /\ last = Event("setup", Null, <<>>)
    /\ closed = FALSE
    /\ outcome = NoOutcome
    /\ elapsed = 0
    /\ navCount = 0

(* ---- camera session ---- *)

\* onMounted: startCamera runs up to its first await
onMounted ==
    /\ mounted = "new"
    /\ mounted' = "mounted"
    /\ pcStart' = "getUserMedia"
    /\ last' = Event("onMounted", Null, <<>>)
    /\ UNCHANGED <<stateVars, cameraVars, timers, decodes, lookups, calls,
                   inputValue, hasDetector, ghostVars>>

\* startScanning: the interval handle is kept in this.scanInterval
startScanning ==
    /\ scanInterval' = "interval"
    /\ timers' = timers \cup {Timer("interval", ScanIntervalMs, 0)}

\* the catch block of startCamera
startCameraCatch ==
    /\ error' = "Unable to access camera. Please check permissions."
    /\ cameraActive' = FALSE

\* getUserMedia resolves: the stream is stored; with no video element
\* (the component is gone) startCamera ends there
getUserMediaResolved ==
    /\ pcStart = "getUserMedia"
    /\ stream' = "camera"
    /\ liveTracks' = liveTracks \cup Tracks
    /\ pcStart' = IF mounted = "mounted" THEN "play" ELSE "done"
    /\ last' = Event("getUserMediaResolved", Null, <<>>)
    /\ UNCHANGED <<stateVars, scanInterval, timers, decodes, lookups, calls,
                   mounted, inputValue, hasDetector, ghostVars>>

getUserMediaRejected ==
    /\ pcStart = "getUserMedia"
    /\ startCameraCatch
    /\ pcStart' = "done"
    /\ last' = Event("getUserMediaRejected", Null, <<Out("console", "Camera error:", 0)>>)
    /\ UNCHANGED <<scanning, lastScanned, equipment, cameraVars, timers, decodes,
                   lookups, calls, mounted, inputValue, hasDetector, ghostVars>>

\* video.play() resolves: the session becomes active and the loop starts
playResolved ==
    /\ pcStart = "play"
    /\ cameraActive' = TRUE
    /\ error' = Null
    /\ startScanning
    /\ pcStart' = "done"
    /\ last' = Event("playResolved", Null, <<>>)
    /\ UNCHANGED <<scanning, lastScanned, equipment, stream, liveTracks, decodes,
                   lookups, calls, mounted, inputValue, hasDetector, ghostVars>>

playRejected ==
    /\ pcStart = "play"
    /\ startCameraCatch
    /\ pcStart' = "done"
    /\ last' = Event("playRejected", Null, <<Out("console", "Camera error:", 0)>>)
    /\ UNCHANGED <<scanning, lastScanned, equipment, cameraVars, timers, decodes,
                   lookups, calls, mounted, inputValue, hasDetector, ghostVars>>

\* Variant: the clearInterval call is left out.
stopCamera_KeepsInterval ==
    /\ liveTracks' = IF stream # Null THEN liveTracks \ Tracks ELSE liveTracks
    /\ stream' = Null
    /\ timers' = timers
    /\ scanInterval' = Null
    /\ cameraActive' = FALSE
    /\ closed' = TRUE

\* stopCamera
stopCamera ==
    /\ liveTracks' = IF stream # Null THEN liveTracks \ Tracks ELSE liveTracks
    /\ stream' = Null
    /\ timers' = IF scanInterval # Null THEN timers \ Pending("interval") ELSE timers
    /\ scanInterval' = Null
    /\ cameraActive' = FALSE
    /\ closed' = TRUE

\* close(): stopCamera, then ask the action service to close the window
close ==
    /\ mounted = "mounted"
    /\ stopCamera
    /\ last' = Event("close", Again, <<Out("doAction", "ir.actions.act_window_close", 0)>>)
    /\ UNCHANGED <<scanning, lastScanned, equipment, error, decodes, lookups, calls,
                   mounted, pcStart, inputValue, hasDetector, outcome, elapsed, navCount>>

\* onWillUnmount: the component leaves the DOM, its refs become null
onWillUnmount ==
    /\ mounted = "mounted"
    /\ stopCamera
    /\ mounted' = "gone"
    /\ last' = Event("onWillUnmount", Again, <<>>)
    /\ UNCHANGED <<scanning, lastScanned, equipment, error, decodes, lookups, calls,
                   pcStart, inputValue, hasDetector, outcome, elapsed, navCount>>

(* ---- scan loop ---- *)

\* scanFrame passes its guards: the session is active, no lookup cycle is
\* running, video and canvas exist and the video holds a full frame
frameReady(ready) ==
    cameraActive /\ ~scanning /\ mounted = "mounted" /\ ready

\* Variant: the 'BarcodeDetector' in window probe is left out.
startsDetect_NoProbe(ready) == frameReady(ready)

\* scanFrame reaches barcodeDetector.detect(canvas)
startsDetect(ready) == frameReady(ready) /\ hasDetector

\* one firing of the interval: scanFrame up to its first await
scanFrame ==
    \E t \in Due("interval"), ready \in BOOLEAN :
        /\ startsDetect(ready) => decodes < MaxDecodes
        /\ timers' = (timers \ {t}) \cup {Timer("interval", ScanIntervalMs, 0)}
        /\ decodes' = IF startsDetect(ready) THEN decodes + 1 ELSE decodes
        /\ last' = Event("scanFrame", Null,
                         IF frameReady(ready) /\ ~hasDetector
                         THEN <<Out("console", "Native barcode detection not available.", 0)>>
                         ELSE <<>>)
        /\ UNCHANGED <<stateVars, cameraVars, lookups, calls, mounted, pcStart,
                       inputValue, hasDetector, ghostVars>>

(* ---- lookup ---- *)

\* Variant: the guard tests the last code only.
accepts_SameCodeOnly(barcode) == lastScanned # barcode

\* the guard of onBarcodeDetected
accepts(barcode) == ~(scanning \/ lastScanned = barcode)

\* Variant: scanning is raised only after the await, so the lookup is sent
\* with the flag still down.
onBarcodeDetected_LateFlag(barcode, src) ==
    IF accepts(barcode)
    THEN /\ lastScanned' = barcode
         /\ lookups' = Append(lookups, [code |-> barcode, src |-> src])
         /\ UNCHANGED scanning
    ELSE UNCHANGED <<scanning, lastScanned, lookups>>

\* onBarcodeDetected up to its first await (the searchRead call)
onBarcodeDetected(barcode, src) ==
    IF accepts(barcode)
    THEN /\ scanning' = TRUE
         /\ lastScanned' = barcode
         /\ lookups' = Append(lookups, [code |-> barcode, src |-> src])
    ELSE UNCHANGED <<scanning, lastScanned, lookups>>

\* detect() resolves with no barcode or with barcodes[0].rawValue = code
detectResolved ==
    \E code \in Codes \cup {Null} :
        /\ decodes > 0
        /\ decodes' = decodes - 1
        /\ IF code # Null
           THEN onBarcodeDetected(code, "scan")
           ELSE UNCHANGED <<scanning, lastScanned, lookups>>
        /\ last' = Event("detectResolved", code, <<>>)
        /\ UNCHANGED <<equipment, error, cameraActive, cameraVars, timers, calls,
                       mounted, pcStart, inputValue, hasDetector, ghostVars>>

\* Variant: the catch block gives the session up as startCamera's does.
detectRejected_Fatal ==
    /\ decodes > 0
    /\ decodes' = decodes - 1
    /\ error' = "Barcode detection error"
    /\ cameraActive' = FALSE
    /\ last' = Event("detectRejected", Null, <<Out("console", "Barcode detection error:", 0)>>)
    /\ UNCHANGED <<scanning, lastScanned, equipment, cameraVars, timers, lookups, calls,
                   mounted, pcStart, inputValue, hasDetector, ghostVars>>

\* detect() rejects: the catch block of scanFrame
detectRejected ==
    /\ decodes > 0
    /\ decodes' = decodes - 1
    /\ last' = Event("detectRejected", Null, <<Out("console", "Barcode detection error:", 0)>>)
    /\ UNCHANGED <<stateVars, cameraVars, timers, lookups, calls, mounted, pcStart,
                   inputValue, hasDetector, ghostVars>>

\* Variant: the else branch does not clear the stored result.
equipmentAfter_KeepsStale(kind, result) ==
    IF kind = "found" THEN result[1] ELSE equipment

\* this.state.equipment after a lookup that ended "found", "notfound" or "failed"
equipmentAfter(kind, result) ==
    CASE kind = "found" -> result[1]
      [] kind = "notfound" -> NoEquipment
      [] OTHER -> equipment

\* this.state.error after the lookup
errorAfter(kind, barcode) ==
    CASE kind = "found" -> Null
      [] kind = "notfound" -> notFoundMessage(barcode)
      [] OTHER -> "Error searching for equipment"

\* Variant: the setTimeout sits after the if/else, opening the stored record.
navTimers_AnyResult(kind, result) ==
    IF kind = "failed"
    THEN {}
    ELSE {Timer("nav", NavDelayMs, IF kind = "found" THEN result[1].id ELSE equipment.id)}

\* the auto-open timer of the found branch
navTimers(kind, result) ==
    IF kind = "found" THEN {Timer("nav", NavDelayMs, result[1].id)} ELSE {}

\* Variant: the reset is scheduled at the end of the try block, not in finally.
finallyTimers_TryOnly(kind) ==
    IF kind = "failed" THEN {} ELSE {Timer("cooldown", CooldownMs, 0)}

\* the timer of the finally block
finallyTimers(kind) == {Timer("cooldown", CooldownMs, 0)}

\* sounds, notifications and log lines of the three branches
lookupOutputs(kind, result) ==
    CASE kind = "found" ->
           <<Out("audio", "beep_success.wav", 0),
             Out("notification.success", "Found: " \o result[1].name, 0)>>
      [] kind = "notfound" ->
           <<Out("audio", "beep_error.wav", 0),
             Out("notification.warning", "Equipment not found", 0)>>
      [] OTHER ->
           <<Out("console", "Search error:", 0), Out("audio", "beep_error.wav", 0)>>

\* onBarcodeDetected from the settled searchRead to its end; a manual entry
\* awaiting it then clears its field
lookupSettled(i, kind, result) ==
    LET lk == lookups[i]
    IN  /\ lookups' = RemoveAt(lookups, i)
        /\ equipment' = equipmentAfter(kind, result)
        /\ error' = errorAfter(kind, lk.code)
        /\ timers' = timers \cup navTimers(kind, result) \cup finallyTimers(kind)
        /\ inputValue' = IF lk.src = "manual" THEN <<>> ELSE inputValue
        /\ last' = Event("lookup", lk.code, lookupOutputs(kind, result))
        /\ outcome' = [kind |-> kind, open |-> ~closed, had |-> equipment # NoEquipment]
        /\ elapsed' = 0
        /\ navCount' = 0
        /\ UNCHANGED <<scanning, lastScanned, cameraActive, cameraVars, decodes, calls,
                       mounted, pcStart, hasDetector, closed>>

searchReadResolved ==
    \E i \in 1..Len(lookups) :
        \E result \in searchRead(lookups[i].code) :
            lookupSettled(i, IF Len(result) > 0 THEN "found" ELSE "notfound", result)

searchReadRejected ==
    \E i \in 1..Len(lookups) : lookupSettled(i, "failed", <<>>)

\* openEquipment
openEquipment(equipmentId) == <<Out("doAction", "equipment.item", equipmentId)>>

\* the auto-open timer fires
navFired ==
    \E t \in Due("nav") :
        /\ timers' = timers \ {t}
        /\ last' = Event("openEquipment", Null, openEquipment(t.id))
        /\ navCount' = navCount + 1
        /\ UNCHANGED <<stateVars, cameraVars, decodes, lookups, calls, mounted, pcStart,
                       inputValue, hasDetector, closed, outcome, elapsed>>

\* Variant: the reset lowers scanning and keeps lastScanned.
cooldownFired_KeepsLast ==
    \E t \in Due("cooldown") :
        /\ timers' = timers \ {t}
        /\ scanning' = FALSE
        /\ last' = Event("cooldown", Null, <<>>)
        /\ outcome' = NoOutcome
        /\ elapsed' = 0
        /\ navCount' = 0
        /\ UNCHANGED <<lastScanned, equipment, error, cameraActive, cameraVars, decodes,
                       lookups, calls, mounted, pcStart, inputValue, hasDetector, closed>>

\* the cooldown timer fires
cooldownFired ==
    \E t \in Due("cooldown") :
        /\ timers' = timers \ {t}
        /\ scanning' = FALSE
        /\ lastScanned' = Null
        /\ last' = Event("cooldown", Null, <<>>)
        /\ outcome' = NoOutcome
        /\ elapsed' = 0
        /\ navCount' = 0
        /\ UNCHANGED <<equipment, error, cameraActive, cameraVars, decodes, lookups, calls,
                       mounted, pcStart, inputValue, hasDetector, closed>>

(* ---- manual entry ---- *)

\* onManualEntry: a keydown in the field, which then holds `line`. A refused
\* code returns at once and the field is cleared in the same turn; an accepted
\* one clears it when the lookup has settled.
onManualEntry ==
    \E key \in {"Enter", "a"}, line \in Lines :
        LET barcode == trim(line)
            submits == key = "Enter" /\ barcode # ""
        IN  /\ mounted = "mounted"
            /\ IF submits
               THEN /\ onBarcodeDetected(barcode, "manual")
                    /\ inputValue' = IF accepts(barcode) THEN line ELSE <<>>
               ELSE UNCHANGED <<scanning, lastScanned, lookups, inputValue>>
            /\ last' = Event(IF submits THEN "onManualEntry" ELSE "keydown",
                             IF submits THEN barcode ELSE Null, <<>>)
            /\ UNCHANGED <<equipment, error, cameraActive, cameraVars, timers, decodes,
                           calls, mounted, pcStart, hasDetector, ghostVars>>

(* ---- quick borrow / return ---- *)

\* Variant: the guard is left out.
hasEquipment_Always == TRUE

\* the guard "if (!this.state.equipment) return" read the other way
hasEquipment == equipment # NoEquipment

\* quickBorrow / quickReturn up to the await of orm.call
quickCall(op, method) ==
    /\ mounted = "mounted"
    /\ hasEquipment => Len(calls) < MaxCalls
    /\ calls' = IF hasEquipment
                THEN Append(calls, [method |-> method, id |-> equipment.id])
                ELSE calls
    /\ last' = Event(op, Null,
                     IF hasEquipment THEN <<Out("orm.call", method, equipment.id)>> ELSE <<>>)
    /\ UNCHANGED <<stateVars, cameraVars, timers, decodes, lookups, mounted, pcStart,
                   inputValue, hasDetector, ghostVars>>

quickBorrow == quickCall("quickBorrow", "action_borrow")

quickReturn == quickCall("quickReturn", "action_return")

\* Variant: the "if (result)" test is left out.
followResult_Always(result, call) == <<Out("doAction", call.method, call.id)>>

\* "if (result) this.action.doAction(result)": the action the method returned
\* is followed
followResult(result, call) ==
    IF result = "action" THEN <<Out("doAction", call.method, call.id)>> ELSE <<>>

\* orm.call resolves, with an action to follow or with nothing
callResolved ==
    \E i \in 1..Len(calls), result \in {"action", "nothing"} :
        /\ calls' = RemoveAt(calls, i)
        /\ last' = Event("callResolved", result, followResult(result, calls[i]))
        /\ UNCHANGED <<stateVars, cameraVars, timers, decodes, lookups, mounted, pcStart,
                       inputValue, hasDetector, ghostVars>>

\* orm.call rejects: the catch blocks
callRejected ==
    \E i \in 1..Len(calls) :
        /\ calls' = RemoveAt(calls, i)
        /\ last' = Event("callRejected", Null,
                         <<Out("console", calls[i].method, 0),
                           Out("notification.danger",
                               IF calls[i].method = "action_borrow"
                               THEN "Error creating loan"
                               ELSE "Error processing return", 0)>>)
        /\ UNCHANGED <<stateVars, cameraVars, timers, decodes, lookups, mounted, pcStart,
                       inputValue, hasDetector, ghostVars>>

(* ---- time ---- *)

\* one scan period passes; a timer that is due fires first
Tick ==
    /\ \A t \in timers : t.rem > 0
    /\ timers' = {[t EXCEPT !.rem = @ - 1] : t \in timers}
    /\ elapsed' = IF outcome # NoOutcome THEN elapsed + 1 ELSE elapsed
    /\ last' = Event("tick", Null, <<>>)
    /\ UNCHANGED <<stateVars, cameraVars, decodes, lookups, calls, mounted, pcStart,
                   inputValue, hasDetector, closed, outcome, navCount>>

(* ---- properties ---- *)

\* everything the program and its runtime hold; the observation variables excluded
progVars == <<scanning, lastScanned, equipment, error, cameraActive, stream, scanInterval,
              liveTracks, timers, decodes, lookups, calls, mounted, pcStart, inputValue>>

SubmitOps == {"onManualEntry", "detectResolved"}

\* C1: in every reachable state at most one searchRead is in flight, and while
\* one is in flight scanning is up, so no second code (the same or another) is
\* looked up concurrently.
C1_AtMostOneLookup ==
    /\ Len(lookups) <= 1
    /\ Len(lookups) = 1 => scanning /\ lastScanned = lookups[1].code

\* C1 witness: a scan detection of the code whose manual lookup is still in
\* flight has just been refused.
C1_Witness ==
    /\ last.op = "detectResolved"
    /\ Len(lookups) = 1
    /\ lookups[1].src = "manual"
    /\ last.arg = lookups[1].code
    /\ decodes > 0

\* C2 (as claimed): openEquipment is never invoked for a result found while the
\* widget was open once stopCamera has run.
C2_NoNavigationAfterClose ==
    ~(last.op = "openEquipment" /\ outcome.kind = "found" /\ outcome.open /\ closed)

\* C3 (as claimed): once stopCamera has run for a teardown, no media track
\* obtained by startCamera is live.
C3_TeardownReleasesCamera == closed => liveTracks = {}

\* C4: every step that runs stopCamera (close, onWillUnmount) ends with the
\* tracks of the held stream stopped, the stream handle null, the held interval
\* cleared and its handle null, and cameraActive false; when the step before
\* it ran stopCamera too, it changes nothing the program holds.
C4_StopCameraPost ==
    [][last'.op \in StopOps =>
        /\ stream' = Null
        /\ scanInterval' = Null
        /\ cameraActive' = FALSE
        /\ liveTracks' = {}
        /\ {t \in timers' : t.kind = "interval"} = {}
        /\ last.op \in StopOps =>
              UNCHANGED <<scanning, lastScanned, equipment, error, cameraActive, stream,
                          scanInterval, liveTracks, timers, decodes, lookups, calls,
                          pcStart, inputValue>>
    ]_vars

\* C4 witness: stopCamera has run twice in a row, the first time before the
\* camera ever opened (getUserMedia is still pending).
C4_Witness ==
    /\ last.op = "onWillUnmount"
    /\ last.arg = "consecutive"
    /\ pcStart = "getUserMedia"

\* C5: every lookup outcome schedules the 3 s reset; the reset fires exactly
\* 3 s after the outcome and leaves scanning = false and lastScanned = null;
\* and with scanning down any submitted code, a repeat included, is looked up.
C5_CooldownRearms ==
    /\ [](outcome # NoOutcome =>
            /\ \E t \in timers : t.kind = "cooldown" /\ t.rem + elapsed = Ticks(3000)
            /\ scanning)
    /\ [][last'.op = "lookup" =>
            [kind |-> "cooldown", rem |-> Ticks(3000), id |-> 0] \in timers']_vars
    /\ [][last'.op = "cooldown" =>
            elapsed = Ticks(3000) /\ scanning' = FALSE /\ lastScanned' = Null]_vars
    /\ [][(~scanning /\ last'.op \in SubmitOps /\ last'.arg # Null) =>
            /\ Len(lookups') = 1
            /\ lookups'[1].code = last'.arg
            /\ scanning']_vars

\* C5 witness: the code whose lookup ended NOT_FOUND has been submitted again
\* after the reset and is being looked up.
C5_Witness ==
    /\ last.op \in SubmitOps
    /\ Len(lookups) = 1
    /\ last.arg = lookups[1].code
    /\ error = "No equipment found with barcode: " \o lookups[1].code
    /\ outcome = NoOutcome

\* C6 (as claimed): after a lookup that failed in transport no result is
\* stored, as after NOT_FOUND, and an error is shown.
C6_FailureClearsResult ==
    (last.op = "lookup" /\ outcome.kind = "failed") =>
        equipment = NoEquipment /\ error # Null

\* C7: a quickBorrow / quickReturn step sends action_borrow / action_return
\* for the stored record when one is stored, and with none stored sends
\* nothing and changes nothing the program holds.
C7_QuickActionsNeedResult ==
    [][last'.op \in {"quickBorrow", "quickReturn"} =>
        LET method == IF last'.op = "quickBorrow" THEN "action_borrow" ELSE "action_return"
        IN  IF equipment # NoEquipment
            THEN /\ calls' = Append(calls, [method |-> method, id |-> equipment.id])
                 /\ last'.out = <<[svc |-> "orm.call", what |-> method, id |-> equipment.id]>>
            ELSE /\ last'.out = <<>>
                 /\ UNCHANGED progVars
    ]_vars

\* C7 witness: quickBorrow has just been invoked with no result stored, in an
\* active session, and sent nothing.
C7_Witness ==
    /\ last.op = "quickBorrow"
    /\ equipment = NoEquipment
    /\ cameraActive
    /\ calls = <<>>

\* C8: without BarcodeDetector no detect() is ever pending or settled, a
\* scanFrame step changes nothing of the session, and every lookup in flight
\* comes from onManualEntry.
C8_NoDetectorNoScanLookups ==
    /\ [](~hasDetector =>
            /\ decodes = 0
            /\ last.op \notin {"detectResolved", "detectRejected"}
            /\ \A i \in 1..Len(lookups) : lookups[i].src = "manual")
    /\ [][(~hasDetector /\ last'.op = "scanFrame") =>
            UNCHANGED <<scanning, lastScanned, equipment, error, cameraActive, stream,
                        scanInterval, liveTracks, decodes, lookups, calls, inputValue>>]_vars
    /\ [][(~hasDetector /\ Len(lookups') > Len(lookups)) => last'.op = "onManualEntry"]_vars

\* C8 witness: without BarcodeDetector a tick has passed the guards of
\* scanFrame and reached the fallback branch, after a manual lookup had found
\* a record and its cooldown had ended.
C8_Witness ==
    /\ ~hasDetector
    /\ last.op = "scanFrame"
    /\ last.out # <<>>
    /\ equipment # NoEquipment

\* C9: a lookup that ends FOUND stores the found record, clears the error and
\* schedules one auto-open; with the session left open openEquipment runs for
\* the found id exactly once, 2 s after the outcome; a lookup that ends
\* NOT_FOUND or fails schedules none.
C9_FoundNavigatesOnce ==
    /\ [][(last'.op = "lookup" /\ outcome'.kind = "found") =>
            /\ equipment'.barcode = last'.arg
            /\ equipment' \in Inventory
            /\ error' = Null
            /\ {t \in timers' : t.kind = "nav"} =
                   {[kind |-> "nav", rem |-> Ticks(2000), id |-> equipment'.id]}]_vars
    /\ [][last'.op = "openEquipment" =>
            /\ outcome.kind = "found"
            /\ elapsed = Ticks(2000)
            /\ navCount = 0
            /\ last'.out = <<[svc |-> "doAction", what |-> "equipment.item",
                              id |-> equipment.id]>>]_vars
    /\ [][(last'.op = "cooldown" /\ outcome.kind = "found" /\ outcome.open /\ ~closed) =>
            navCount = 1]_vars
    /\ [](outcome.kind \in {"notfound", "failed", "none"} =>
            navCount = 0 /\ {t \in timers : t.kind = "nav"} = {})
    /\ [](outcome.kind = "found" =>
            navCount + Cardinality({t \in timers : t.kind = "nav"}) = 1)

\* C9 witness: in an open session the auto-open of the found record has fired.
C9_Witness ==
    /\ last.op = "openEquipment"
    /\ ~closed
    /\ navCount = 1
    /\ last.out[1].id = equipment.id
    /\ equipment.barcode = "EQ-1001"

\* C10: a lookup of code c that returns no record clears the stored result and
\* sets the error to "No equipment found with barcode: c".
C10_NotFoundClearsAndNames ==
    [][(last'.op = "lookup" /\ outcome'.kind = "notfound") =>
        /\ equipment' = NoEquipment
        /\ \E i \in 1..Len(lookups) :
              /\ lookups[i].code = last'.arg
              /\ error' = "No equipment found with barcode: " \o lookups[i].code
    ]_vars

\* C10 witness: EQ-9999 has just been looked up and not found while a result
\* of an earlier lookup was stored.
C10_Witness ==
    /\ last.op = "lookup"
    /\ outcome.kind = "notfound"
    /\ outcome.had
    /\ equipment = NoEquipment
    /\ error = "No equipment found with barcode: EQ-9999"

\* C11 (as claimed): a tick starts no decode while one started by an earlier
\* tick is still in progress, so at most one detect() is pending at any time.
C11_AtMostOneDecode == decodes <= 1

\* C12 (as claimed): once stopCamera has run, no scan interval is live and
\* cameraActive is false in every later state.
C12_NoIntervalAfterStop ==
    closed => {t \in timers : t.kind = "interval"} = {} /\ ~cameraActive

\* C13 (as claimed): a failed startCamera (getUserMedia or video.play()
\* rejected) ends with the error shown, cameraActive false, no scan timer
\* started and no camera track live.
C13_FailedStartReleases ==
    last.op \in {"getUserMediaRejected", "playRejected"} =>
        /\ error = "Unable to access camera. Please check permissions."
        /\ ~cameraActive
        /\ scanInterval = Null
        /\ {t \in timers : t.kind = "interval"} = {}
        /\ pcStart = "done"
        /\ liveTracks = {}

\* C14: a rejected borrow / return call emits the danger notification and
\* leaves the session state, the timers and the pending lookups as they were;
\* a resolved one follows the returned action exactly when one was returned,
\* and changes no session state either.
C14_QuickCallOutcome ==
    /\ [][last'.op = "callRejected" =>
            /\ \E i \in 1..Len(last'.out) :
                  /\ last'.out[i].svc = "notification.danger"
                  /\ last'.out[i].what \in {"Error creating loan", "Error processing return"}
            /\ \A i \in 1..Len(last'.out) : last'.out[i].svc # "doAction"
            /\ UNCHANGED <<scanning, lastScanned, equipment, error, cameraActive, stream,
                           scanInterval, liveTracks, timers, decodes, lookups>>]_vars
    /\ [][last'.op = "callResolved" =>
            /\ last'.arg = "action" <=>
                  (Len(last'.out) = 1 /\ last'.out[1].svc = "doAction")
            /\ last'.arg # "action" => last'.out = <<>>
            /\ UNCHANGED <<scanning, lastScanned, equipment, error, cameraActive, stream,
                           scanInterval, liveTracks, timers, decodes, lookups>>]_vars

\* C14 witness: a borrow call sent for the stored record has just been
\* rejected while the session is active and a lookup cycle is running.
C14_Witness ==
    /\ last.op = "callRejected"
    /\ last.out[2].what = "Error creating loan"
    /\ cameraActive
    /\ scanning
    /\ equipment # NoEquipment

\* C15: a rejected detect() starts no lookup, leaves every session flag, the
\* stored result, the stream and the scan timer as they were, and only ends
\* that one decode; with the session active the interval is still pending, so
\* the next tick runs.
C15_DecodeErrorIsNoCode ==
    /\ [][last'.op = "detectRejected" =>
            /\ decodes' = decodes - 1
            /\ UNCHANGED <<scanning, lastScanned, equipment, error, cameraActive, stream,
                           scanInterval, liveTracks, timers, lookups, calls, inputValue,
                           mounted, pcStart>>]_vars
    /\ []((last.op = "detectRejected" /\ cameraActive) =>
            /\ scanInterval # Null
            /\ \E t \in timers : t.kind = "interval")

\* C15 witness: a detect() has just been rejected in an active, idle session
\* whose scan timer is pending.
C15_Witness ==
    /\ last.op = "detectRejected"
    /\ cameraActive
    /\ ~scanning
    /\ \E t \in timers : t.kind = "interval"
    /\ decodes = 0

\* C16: in every reachable state scanning = true implies that a searchRead is
\* in flight or that the 3 s reset timer of a completed lookup is pending.
C16_ScanningHasCause ==
    scanning => (Len(lookups) > 0 \/ \E t \in timers : t.kind = "cooldown")

\* C16 witness: scanning is up with no lookup in flight, held by the pending
\* reset timer of a lookup that failed.
C16_Witness ==
    /\ scanning
    /\ lookups = <<>>
    /\ outcome.kind = "failed"
    /\ \E t \in timers : t.kind = "cooldown" /\ t.rem = 0

\* C17: while a searchRead is in flight scanning is up and no reset timer is
\* pending, and no step but the settling of that searchRead changes either:
\* every code submitted meanwhile is ignored, however much time passes. And
\* when every searchRead is answered and timers fire, scanning is false again
\* and again: it never stays true from some point on.
C17_NoLookupTimeout ==
    /\ [](Len(lookups) > 0 =>
            scanning /\ {t \in timers : t.kind = "cooldown"} = {})
    /\ [][(Len(lookups) > 0 /\ last'.op # "lookup") =>
            /\ lookups' = lookups
            /\ scanning'
            /\ lastScanned' = lastScanned
            /\ {t \in timers' : t.kind = "cooldown"} = {}]_vars
    /\ []<>(~scanning)

\* C17 witness: with a lookup in flight, time has passed and another code has
\* just been submitted and ignored.
C17_Witness ==
    /\ last.op \in SubmitOps
    /\ last.arg \in Codes
    /\ Len(lookups) = 1
    /\ lookups[1].code # last.arg
    /\ \E t \in timers : t.kind = "interval" /\ t.rem = 0

\* C18: a line submitted with Enter whose trimmed text is the code c starts a
\* searchRead exactly when a decoded c does: if and only if scanning is false
\* and c differs from lastScanned, whatever cameraActive and the decoder
\* support are. A refused line clears the field at once, an accepted one when
\* its lookup has settled, and any other keydown changes nothing.
C18_ManualEntrySameGuard ==
    /\ [][(last'.op \in SubmitOps /\ last'.arg # Null) =>
            /\ last'.arg \in Codes
            /\ IF ~scanning /\ lastScanned # last'.arg
               THEN /\ scanning'
                    /\ lastScanned' = last'.arg
                    /\ Len(lookups') = Len(lookups) + 1
                    /\ lookups'[Len(lookups')].code = last'.arg
                    /\ last'.op = "onManualEntry" => inputValue' # <<>>
               ELSE /\ UNCHANGED <<scanning, lastScanned, lookups>>
                    /\ last'.op = "onManualEntry" => inputValue' = <<>>]_vars
    /\ [][(last'.op = "lookup" /\ \E i \in 1..Len(lookups) :
                                    /\ lookups[i].src = "manual"
                                    /\ lookups' = RemoveAt(lookups, i)) =>
            inputValue' = <<>>]_vars
    /\ [][last'.op = "keydown" => UNCHANGED progVars]_vars

\* C18 witness: with the camera off and no decoder, a padded line has just
\* been submitted and its trimmed code is being looked up, the field still
\* holding the line.
C18_Witness ==
    /\ last.op = "onManualEntry"
    /\ ~cameraActive
    /\ ~hasDetector
    /\ lookups = <<[code |-> last.arg, src |-> "manual"]>>
    /\ last.arg = "EQ-9999"
    /\ inputValue = <<Space, "EQ-9999", Space>>

\* C19: once stopCamera has run, a detect() that resolves with a code starts no
\* searchRead, whether or not it was called before the stop.
C19_NoScanLookupAfterStop ==
    [][(closed /\ last'.op = "detectResolved") =>
            /\ lookups' = lookups
            /\ UNCHANGED <<scanning, lastScanned>>]_vars

\* C20: in every reachable state at most one reset timer is pending, none is
\* pending while a searchRead is in flight, and scanning is true exactly when
\* lastScanned is not null.
C20_OneCooldownFlagsAgree ==
    /\ Cardinality({t \in timers : t.kind = "cooldown"}) <= 1
    /\ lookups # <<>> => {t \in timers : t.kind = "cooldown"} = {}
    /\ scanning <=> lastScanned # Null

\* C20 witness: the cycle of EQ-1001 is over, its record still stored, and the
\* later code EQ-9999 is being looked up with no reset timer pending.
C20_Witness ==
    /\ equipment.barcode = "EQ-1001"
    /\ lookups = <<[code |-> "EQ-9999", src |-> "scan"]>>
    /\ scanning
    /\ lastScanned = "EQ-9999"
    /\ {t \in timers : t.kind = "cooldown"} = {}

Next ==
    \/ onMounted
    \/ getUserMediaResolved
    \/ getUserMediaRejected
    \/ playResolved
    \/ playRejected
    \/ close
    \/ onWillUnmount
    \/ scanFrame
    \/ detectResolved
    \/ detectRejected
    \/ searchReadResolved
    \/ searchReadRejected
    \/ navFired
    \/ cooldownFired
    \/ onManualEntry
    \/ quickBorrow
    \/ quickReturn
    \/ callResolved
    \/ callRejected
    \/ Tick

Spec == Init /\ [][Next]_vars

\* The event loop runs what is ready: a due timer fires, time passes, and the
\* remote answers every searchRead.
FairSpec ==
    /\ Spec
    /\ WF_vars(searchReadResolved \/ searchReadRejected)
    /\ WF_vars(cooldownFired)
    /\ WF_vars(navFired)
    /\ WF_vars(scanFrame)
    /\ WF_vars(Tick)
====
